---- MODULE Spec2Model ----
(***************************************************************************)
(* Model of cmake_converter/data_converter.py (class DataConverter):       *)
(* verify_data, merge_data_settings and the run_conversion /               *)
(* convert_project pipeline.                                               *)
(*                                                                         *)
(* Python values are modelled as follows.                                  *)
(*   None                 the string "None"                                *)
(*   a ConfigKey          a pair <<configuration, architecture>>           *)
(*   a list               a sequence                                       *)
(*   a dict / OrderedDict a sequence of <<key, value>> pairs in insertion  *)
(*                        order (Python dicts iterate in insertion order)  *)
(*   context.settings     a function ConfigKey -> SettingsRecord; it is    *)
(*                        only indexed, never iterated in an order that    *)
(*                        matters                                          *)
(*   a SettingsRecord     a function setting-name -> value                 *)
(***************************************************************************)
EXTENDS Integers, Sequences, FiniteSets, TLC

None == "None"

(* ---------------- bounds of the explored inputs ---------------- *)
MaxLen == 3        \* longest "defines" list of the first configuration (ordering inputs)
SecondLen == 2     \* longest "defines" list of the second configuration (ordering inputs)
StructLen == 1     \* longest list of a mergeable key in the mapping inputs
MaxMerges == 2     \* calls of merge_data_settings on one context
MaxVerifies == 2   \* calls of verify_data on one context
NumProjects == 2   \* projects handed to one run_conversion call

Vals == {"X", "Y", "Z"}
StructVals == {"X", "Y"}

Range(s) == {s[i] : i \in DOMAIN s}

BoundedSeq(S, n) == UNION {[1..k -> S] : k \in 0..n}

(* ---------------- ordered dictionaries ---------------- *)
ODHas(od, k) == \E i \in DOMAIN od : od[i][1] = k

ODGet(od, k) == od[CHOOSE i \in DOMAIN od : od[i][1] = k][2]

ODSet(od, k, v) ==
    IF ODHas(od, k)
    THEN [i \in DOMAIN od |-> IF od[i][1] = k THEN <<k, v>> ELSE od[i]]
    ELSE Append(od, <<k, v>>)

(* set a key of a record stored in context.settings *)
SetItem(f, k, v) == [x \in DOMAIN f \cup {k} |-> IF x = k THEN v ELSE f[x]]

(* ---------------- external collaborators ---------------- *)
(* context.utils.lists_of_settings_to_merge(): the mergeable keys *)
lists_of_settings_to_merge == <<"defines", "include_dirs">>

(* the record context.utils.init_context_current_setting creates *)
BaselineRecord == [x \in {} |-> <<>>]

(* context.utils.init_context_current_setting(context) with
   context.current_setting = setting *)
init_context_current_setting(settings, setting) ==
    SetItem(settings, setting, BaselineRecord)

(* ---------------- merge_data_settings: intersection pass ---------------- *)
(* One iteration of the loop of lines 111-130.  st holds context.settings,
   lists_of_items_to_merge, set_of_items and whether a KeyError was raised. *)
(* the step with line 128 uniting instead of intersecting *)
intersection_step_union(st, sln_setting, mapped_setting, key) ==
    LET mapped_arch == sln_setting[2]
        lists1 == IF mapped_arch # None /\ ~ODHas(st.lists, mapped_arch)
                  THEN Append(st.lists, <<mapped_arch, <<>>>>)
                  ELSE st.lists
        settings1 == IF <<None, mapped_arch>> \notin DOMAIN st.settings
                     THEN init_context_current_setting(st.settings, <<None, mapped_arch>>)
                     ELSE st.settings
        st1 == [st EXCEPT !.lists = lists1, !.settings = settings1]
    IN  IF mapped_setting \notin DOMAIN settings1
        THEN [st1 EXCEPT !.raised = TRUE]
        ELSE IF key \notin DOMAIN settings1[mapped_setting] \/ mapped_setting[1] = None
        THEN st1
        ELSE IF ~ODHas(lists1, mapped_arch)
        THEN [st1 EXCEPT !.raised = TRUE]
        ELSE LET settings_list == settings1[mapped_setting][key]
                 first == ODGet(lists1, mapped_arch) = <<>>
                 set0 == IF first THEN Range(settings_list) ELSE st.sets[mapped_arch]
                 lists2 == ODSet(lists1, mapped_arch,
                                 ODSet(ODGet(lists1, mapped_arch), sln_setting, settings_list))
             IN  [st1 EXCEPT !.lists = lists2,
                             !.sets = SetItem(st.sets, mapped_arch,
                                              set0 \cup Range(settings_list))]

(* the step with the first-pass test of line 124 always taken *)
intersection_step_reset(st, sln_setting, mapped_setting, key) ==
    LET mapped_arch == sln_setting[2]
        lists1 == IF mapped_arch # None /\ ~ODHas(st.lists, mapped_arch)
                  THEN Append(st.lists, <<mapped_arch, <<>>>>)
                  ELSE st.lists
        settings1 == IF <<None, mapped_arch>> \notin DOMAIN st.settings
                     THEN init_context_current_setting(st.settings, <<None, mapped_arch>>)
                     ELSE st.settings
        st1 == [st EXCEPT !.lists = lists1, !.settings = settings1]
    IN  IF mapped_setting \notin DOMAIN settings1
        THEN [st1 EXCEPT !.raised = TRUE]
        ELSE IF key \notin DOMAIN settings1[mapped_setting] \/ mapped_setting[1] = None
        THEN st1
        ELSE IF ~ODHas(lists1, mapped_arch)
        THEN [st1 EXCEPT !.raised = TRUE]
        ELSE LET settings_list == settings1[mapped_setting][key]
                 lists2 == ODSet(lists1, mapped_arch,
                                 ODSet(ODGet(lists1, mapped_arch), sln_setting, settings_list))
             IN  [st1 EXCEPT !.lists = lists2,
                             !.sets = SetItem(st.sets, mapped_arch, Range(settings_list))]

intersection_step(st, sln_setting, mapped_setting, key) ==
    LET mapped_arch == sln_setting[2]
        lists1 == IF mapped_arch # None /\ ~ODHas(st.lists, mapped_arch)
                  THEN Append(st.lists, <<mapped_arch, <<>>>>)
                  ELSE st.lists
        settings1 == IF <<None, mapped_arch>> \notin DOMAIN st.settings
                     THEN init_context_current_setting(st.settings, <<None, mapped_arch>>)
                     ELSE st.settings
        st1 == [st EXCEPT !.lists = lists1, !.settings = settings1]
    IN  IF mapped_setting \notin DOMAIN settings1
        THEN [st1 EXCEPT !.raised = TRUE]
        ELSE IF key \notin DOMAIN settings1[mapped_setting] \/ mapped_setting[1] = None
        THEN st1
        ELSE IF ~ODHas(lists1, mapped_arch)
        THEN [st1 EXCEPT !.raised = TRUE]
        ELSE LET settings_list == settings1[mapped_setting][key]
                 first == ODGet(lists1, mapped_arch) = <<>>
                 set0 == IF first THEN Range(settings_list) ELSE st.sets[mapped_arch]
                 lists2 == ODSet(lists1, mapped_arch,
                                 ODSet(ODGet(lists1, mapped_arch), sln_setting, settings_list))
             IN  [st1 EXCEPT !.lists = lists2,
                             !.sets = SetItem(st.sets, mapped_arch,
                                              set0 \cap Range(settings_list))]

RECURSIVE intersection_pass(_, _, _, _)
intersection_pass(st, map, key, i) ==
    IF i > Len(map) \/ st.raised
    THEN st
    ELSE intersection_pass(intersection_step(st, map[i][1], map[i][2], key), map, key, i + 1)

(* ---------------- __update_settings_at_context ---------------- *)
(* the method without line 174 *)
update_settings_at_context_no_repoint(c, sln_setting, key, settings_to_set) ==
    LET settings1 == IF sln_setting \notin DOMAIN c.settings
                     THEN SetItem(c.settings, sln_setting,
                                  c.settings[ODGet(c.map, sln_setting)])
                     ELSE c.settings
    IN  [c EXCEPT !.settings = SetItem(settings1, sln_setting,
                                       SetItem(settings1[sln_setting], key, settings_to_set))]

update_settings_at_context(c, sln_setting, key, settings_to_set) ==
    LET settings1 == IF sln_setting \notin DOMAIN c.settings
                     THEN SetItem(c.settings, sln_setting,
                                  c.settings[ODGet(c.map, sln_setting)])
                     ELSE c.settings
    IN  [c EXCEPT !.settings = SetItem(settings1, sln_setting,
                                       SetItem(settings1[sln_setting], key, settings_to_set)),
                  !.map = ODSet(c.map, sln_setting, sln_setting)]

(* ---------------- __remove_common_settings_from_context ---------------- *)
(* the filter of line 163 with its test inverted *)
result_settings_list_inverted(list, common) ==
    SelectSeq(list, LAMBDA element : element \in common)

result_settings_list(list, common) == SelectSeq(list, LAMBDA element : element \notin common)

RECURSIVE remove_common_arch(_, _, _, _, _)
remove_common_arch(c, items, common, key, j) ==
    IF j > Len(items)
    THEN c
    ELSE remove_common_arch(
             update_settings_at_context(c, items[j][1], key,
                                        result_settings_list(items[j][2], common)),
             items, common, key, j + 1)

RECURSIVE remove_common_settings_from_context(_, _, _, _, _)
remove_common_settings_from_context(c, lists, sets, key, a) ==
    IF a > Len(lists)
    THEN c
    ELSE remove_common_settings_from_context(
             IF lists[a][2] = <<>>
             THEN c
             ELSE remove_common_arch(c, lists[a][2], sets[lists[a][1]], key, 1),
             lists, sets, key, a + 1)

(* ---------------- __get_order_of_common_settings ---------------- *)
(* the while loop of lines 184-195 for one architecture; i is the 1-based
   index of the round *)
(* the lists appended one after the other instead of interleaved by index;
   here i counts the lists *)
RECURSIVE round_robin_concat(_, _, _)
round_robin_concat(items, i, acc) ==
    IF i > Len(items)
    THEN acc
    ELSE round_robin_concat(items, i + 1, acc \o items[i][2])

RECURSIVE round_robin(_, _, _)
round_robin(items, i, acc) ==
    LET present == SelectSeq(items, LAMBDA it : i <= Len(it[2]))
        out_of_bounds == Len(items) - Len(present)
        acc1 == acc \o [j \in 1..Len(present) |-> present[j][2][i]]
    IN  IF out_of_bounds = Len(items)
        THEN acc1
        ELSE round_robin(items, i + 1, acc1)

get_order_of_common_settings(lists) ==
    [a \in 1..Len(lists) |-> <<lists[a][1], round_robin(lists[a][2], 1, <<>>)>>]

(* ---------------- __get_common_ordered_settings ---------------- *)
(* the inner loop of lines 205-210; f holds set_of_items, the list built so
   far and whether the loop was left by break *)
(* the loop with line 207 putting each element in front of the list *)
RECURSIVE common_ordered_arch_prepend(_, _, _, _)
common_ordered_arch_prepend(f, arch, merged_order_list, j) ==
    IF j > Len(merged_order_list) \/ f.stop
    THEN f
    ELSE LET element == merged_order_list[j]
         IN  common_ordered_arch_prepend(
                 IF element \in f.sets[arch]
                 THEN [sets |-> [f.sets EXCEPT ![arch] = @ \ {element}],
                       out  |-> <<element>> \o f.out,
                       stop |-> DOMAIN f.sets = {}]
                 ELSE f,
                 arch, merged_order_list, j + 1)

RECURSIVE common_ordered_arch(_, _, _, _)
common_ordered_arch(f, arch, merged_order_list, j) ==
    IF j > Len(merged_order_list) \/ f.stop
    THEN f
    ELSE LET element == merged_order_list[j]
         IN  common_ordered_arch(
                 IF element \in f.sets[arch]
                 THEN [sets |-> [f.sets EXCEPT ![arch] = @ \ {element}],
                       out  |-> Append(f.out, element),
                       stop |-> DOMAIN f.sets = {}]
                 ELSE f,
                 arch, merged_order_list, j + 1)

RECURSIVE get_common_ordered_settings(_, _, _, _)
get_common_ordered_settings(merged_order_lists, sets, a, acc) ==
    IF a > Len(merged_order_lists)
    THEN acc
    ELSE LET arch == merged_order_lists[a][1]
             f == common_ordered_arch([sets |-> sets, out |-> <<>>, stop |-> FALSE],
                                      arch, merged_order_lists[a][2], 1)
         IN  get_common_ordered_settings(merged_order_lists, f.sets, a + 1,
                                         Append(acc, <<arch, f.out>>))

(* ---------------- commit: lines 146-149 ---------------- *)
(* the commit without line 149 *)
RECURSIVE commit_no_map(_, _, _, _)
commit_no_map(c, merged_settings, key, a) ==
    IF a > Len(merged_settings) \/ c.raised
    THEN c
    ELSE LET arch == merged_settings[a][1]
             wild == <<None, arch>>
         IN  commit_no_map(
                 IF wild \notin DOMAIN c.settings
                 THEN [c EXCEPT !.raised = TRUE]
                 ELSE [c EXCEPT !.settings = SetItem(c.settings, wild,
                                      SetItem(c.settings[wild], key, merged_settings[a][2]))],
                 merged_settings, key, a + 1)

RECURSIVE commit(_, _, _, _)
commit(c, merged_settings, key, a) ==
    IF a > Len(merged_settings) \/ c.raised
    THEN c
    ELSE LET arch == merged_settings[a][1]
             wild == <<None, arch>>
         IN  commit(
                 IF wild \notin DOMAIN c.settings
                 THEN [c EXCEPT !.raised = TRUE]
                 ELSE [c EXCEPT !.settings = SetItem(c.settings, wild,
                                      SetItem(c.settings[wild], key, merged_settings[a][2])),
                                !.map = ODSet(c.map, wild, wild)],
                 merged_settings, key, a + 1)

(* ---------------- merge_data_settings: one mergeable key ---------------- *)
(* the body of the loop of line 106.  c holds context.settings,
   context.sln_configurations_map, whether an exception was raised and, as a
   record of what the call did, the locals of every pass. *)
merge_key(c, key) ==
    LET p == intersection_pass([settings |-> c.settings, lists |-> <<>>,
                                sets |-> [x \in {} |-> {}], raised |-> FALSE],
                               c.map, key, 1)
    IN  IF p.raised
        THEN [c EXCEPT !.settings = p.settings, !.raised = TRUE]
        ELSE LET c1 == remove_common_settings_from_context(
                           [c EXCEPT !.settings = p.settings], p.lists, p.sets, key, 1)
                 merged_order_lists == get_order_of_common_settings(p.lists)
                 merged_settings == get_common_ordered_settings(merged_order_lists,
                                                                p.sets, 1, <<>>)
                 c2 == commit(c1, merged_settings, key, 1)
             IN  [c2 EXCEPT !.passes = Append(@, [key |-> key,
                                                  at_settings |-> c.settings,
                                                  at_map |-> c.map,
                                                  lists |-> p.lists,
                                                  sets |-> p.sets,
                                                  order |-> merged_order_lists,
                                                  common |-> merged_settings])]

RECURSIVE merge_keys(_, _, _)
merge_keys(c, keys, k) ==
    IF k > Len(keys) \/ c.raised
    THEN c
    ELSE merge_keys(merge_key(c, keys[k]), keys, k + 1)

(* ---------------- merge_data_settings ---------------- *)
(* The whole method: every mergeable key, then the nested per-file contexts
   (lines 151-153).  context.file_contexts is a sequence of <<file, context>>
   pairs; None and the empty dict behave alike here and are both <<>>. *)
MergeInput(fc) ==
    [settings |-> fc.settings, map |-> fc.map, files |-> fc.files,
     raised |-> FALSE, passes |-> <<>>]

RECURSIVE merge_data_settings(_)
RECURSIVE merge_file_contexts(_, _)
merge_file_contexts(c, i) ==
    IF i > Len(c.files) \/ c.raised
    THEN c
    ELSE LET r == merge_data_settings(MergeInput(c.files[i][2]))
         IN  merge_file_contexts(
                 [c EXCEPT !.files[i] = <<c.files[i][1],
                                          [settings |-> r.settings, map |-> r.map,
                                           files |-> r.files]>>,
                           !.raised = r.raised],
                 i + 1)

merge_data_settings(c) ==
    LET c1 == merge_keys(c, lists_of_settings_to_merge, 1)
    IN  IF c1.raised THEN c1 ELSE merge_file_contexts(c1, 1)

(* ---------------- verify_data ---------------- *)
(* message(context, text, status): one diagnostic; absent holds the
   configurations an error names *)
Message(status, kind, absent) == [status |-> status, kind |-> kind, absent |-> absent]

message(ctx, m) == [ctx EXCEPT !.messages = Append(@, m)]

(* line 68 without the skip of wildcard keys *)
TypedSettings_all(settings) == DOMAIN settings

(* the configurations line 68 does not skip *)
TypedSettings(settings) == {setting \in DOMAIN settings : None \notin Range(setting)}

(* __verify_target_types: v holds the context and whether a KeyError left *)
verify_target_types(ctx) ==
    LET typed == TypedSettings(ctx.settings)
    IN  IF \E setting \in typed : "target_type" \notin DOMAIN ctx.settings[setting]
        THEN [ctx |-> ctx, raised |-> TRUE]
        ELSE LET target_types == {ctx.settings[setting]["target_type"] : setting \in typed}
             IN  [ctx |-> IF Cardinality(target_types) > 1
                          THEN message(ctx, Message("warn", "target_types", {}))
                          ELSE ctx,
                  raised |-> FALSE]

(* __verify_configurations_to_parse without line 87 *)
verify_configurations_to_parse_unpruned(ctx) ==
    LET absent_settings == {setting \in ctx.requested : setting \notin DOMAIN ctx.settings}
    IN  IF Cardinality(absent_settings) > 0
        THEN [ctx |-> message(ctx, Message("error", "absent_settings", absent_settings)),
              result |-> FALSE]
        ELSE [ctx |-> ctx, result |-> TRUE]

(* __verify_configurations_to_parse *)
verify_configurations_to_parse(ctx) ==
    LET absent_settings == {setting \in ctx.requested : setting \notin DOMAIN ctx.settings}
    IN  IF Cardinality(absent_settings) > 0
        THEN [ctx |-> message([ctx EXCEPT !.requested = @ \ absent_settings],
                              Message("error", "absent_settings", absent_settings)),
              result |-> FALSE]
        ELSE [ctx |-> ctx, result |-> TRUE]

(* verify_data: the context it leaves, what it returns and whether it raised *)
verify_data(ctx) ==
    LET t == verify_target_types(ctx)
    IN  IF t.raised
        THEN [ctx |-> t.ctx, result |-> FALSE, raised |-> TRUE]
        ELSE LET c == verify_configurations_to_parse(t.ctx)
             IN  [ctx |-> c.ctx, result |-> c.result, raised |-> FALSE]

PyBool(b) == IF b THEN "True" ELSE "False"

(* ======================= the state ======================= *)
VARIABLES
    context,    \* the project's Context: settings, sln_configurations_map (map),
                \* file_contexts (files), configurations_to_parse (requested),
                \* dry, and the diagnostics written through message() (messages)
    raised,     \* an exception left the last call
    merges,     \* calls of merge_data_settings on this context so far
    verifies,   \* calls of verify_data on this context so far
    passes,     \* the locals of every key's pass of the last merge call
    before,     \* the context as the last call received it
    twin,       \* what the last merge call stores under the wildcard keys when the
                \* same sln_configurations_map is iterated in another order
    returned,   \* what the last verify_data call returned
    pc,         \* position of run_conversion / convert_project
    project,    \* index of the project run_conversion is at
    results,    \* the list run_conversion returns
    trace       \* per project, the phases convert_project ran, in order

vars == <<context, raised, merges, verifies, passes, before, twin, returned,
          pc, project, results, trace>>

(* ---------------- parsed inputs ---------------- *)
D64 == <<"Debug", "x64">>
R64 == <<"Release", "x64">>
M64 == <<"MinSizeRel", "x64">>
D86 == <<"Debug", "x86">>
Wild == <<None, None>>
RNone == <<"Release", None>>

Absent == <<None>>     \* marks a setting a record has no entry for

NoEntry == <<None, None, None>>   \* marks a configuration the solution does not have

Opt(S) == S \cup {Absent}

EmptyFcn == [x \in {} |-> <<>>]

(* a record as the parser leaves it *)
ParsedRecord(t, d, i) ==
    [k \in {"target_type"} \cup (IF d = Absent THEN {} ELSE {"defines"})
                           \cup (IF i = Absent THEN {} ELSE {"include_dirs"}) |->
        IF k = "target_type" THEN t ELSE IF k = "defines" THEN d ELSE i]

NewContext(settings, map, files, requested, dry) ==
    [settings |-> settings, map |-> map, files |-> files,
     requested |-> requested, dry |-> dry, messages |-> <<>>]

(* a nested per-file context *)
FileContext ==
    [settings |-> (D64 :> ParsedRecord("Application", <<"X", "Y">>, Absent))
                  @@ (R64 :> ParsedRecord("Application", <<"Y">>, <<"X">>)),
     map |-> << <<D64, D64>>, <<R64, R64>> >>,
     files |-> <<>>]

(* ordering inputs: two or three configurations of one architecture, each
   resolving to its own record, with "defines" lists over Vals; the record of
   the third may lack "defines" *)
OrderContext(d1, d2, d3) ==
    NewContext((D64 :> ParsedRecord("Application", d1, Absent))
               @@ (R64 :> ParsedRecord("Application", d2, Absent))
               @@ (IF d3 = NoEntry THEN EmptyFcn
                   ELSE (M64 :> ParsedRecord("Application", d3, Absent))),
               << <<D64, D64>>, <<R64, R64>> >>
               \o (IF d3 = NoEntry THEN <<>> ELSE << <<M64, M64>> >>),
               <<>>, {D64, R64}, FALSE)

ThirdLists == {NoEntry, Absent, <<"X">>, <<"Y", "X">>, <<"Y", "X", "Y">>}

(* mapping inputs: records for Debug|x64 and Release|x64 with or without
   either mergeable key, and solution configurations Debug|x64, Release|x64
   and Debug|x86 each resolving to one of the two records; in the variants a
   wildcard entry, an entry without architecture or a per-file context is
   added *)
MergeRecords ==
    {ParsedRecord("Application", d, i) :
        d \in Opt(BoundedSeq(StructVals, StructLen)),
        i \in Opt(BoundedSeq({"X"}, StructLen))}

MapOf(t) ==
    SelectSeq(<< <<D64, t[1]>>, <<R64, t[2]>>, <<D86, t[3]>> >>,
              LAMBDA e : e[2] # Absent)

MapChoices == {t \in [1..3 -> {D64, R64, Absent}] : \E i \in 1..3 : t[i] # Absent}

Variants == {"plain", "wildcard", "none_arch", "file"}

StructContext(r1, r2, t, variant) ==
    NewContext((D64 :> r1) @@ (R64 :> r2)
               @@ (IF variant = "wildcard"
                   THEN (Wild :> [k \in {"defines"} |-> <<"X">>])
                   ELSE EmptyFcn),
               MapOf(t) \o (CASE variant = "wildcard" -> << <<Wild, Wild>> >>
                              [] variant = "none_arch" -> << <<RNone, R64>> >>
                              [] OTHER -> <<>>),
               IF variant = "file" THEN << <<"a.cpp", FileContext>> >> ELSE <<>>,
               {D64, R64}, FALSE)

NoTwin == [p \in {} |-> <<>>]

NoTrace == [i \in 1..NumProjects |-> <<>>]

(* a context no method was called on yet, outside any run_conversion *)
Fresh(ctx) ==
    /\ context = ctx
    /\ raised = FALSE
    /\ merges = 0
    /\ verifies = 0
    /\ passes = <<>>
    /\ before = ctx
    /\ twin = NoTwin
    /\ returned = "none"
    /\ pc = "idle"
    /\ project = 0
    /\ results = <<>>
    /\ trace = NoTrace

InitOrder ==
    \E d1 \in BoundedSeq(Vals, MaxLen), d2 \in BoundedSeq(Vals, SecondLen),
       d3 \in ThirdLists :
        Fresh(OrderContext(d1, d2, d3))

InitStruct ==
    \E r1 \in MergeRecords, r2 \in MergeRecords, t \in MapChoices, variant \in Variants :
        /\ variant # "plain" => t = <<D64, R64, Absent>>
        /\ Fresh(StructContext(r1, r2, t, variant))

Init == InitOrder \/ InitStruct

(* ---------------- the merge_data_settings call ---------------- *)
Permute(map, p) == [i \in 1..Len(map) |-> map[p[i]]]

WildcardRecords(settings) ==
    [w \in {k \in DOMAIN settings : k[1] = None} |-> settings[w]]

MergeOf(ctx) ==
    merge_data_settings([settings |-> ctx.settings, map |-> ctx.map, files |-> ctx.files,
                         raised |-> FALSE, passes |-> <<>>])

TwinOf(ctx) ==
    [p \in Permutations(1..Len(ctx.map)) |->
        CHOOSE w \in {[raised |-> r.raised, wild |-> WildcardRecords(r.settings)] :
                       r \in {MergeOf([ctx EXCEPT !.map = Permute(ctx.map, p)])}} : TRUE]

MergeDataSettings ==
    /\ pc = "idle"
    /\ merges < MaxMerges
    /\ ~raised
    /\ \E r \in {MergeOf(context)} :
           /\ context' = [context EXCEPT !.settings = r.settings, !.map = r.map,
                                         !.files = r.files]
           /\ raised' = r.raised
           /\ passes' = r.passes
    /\ before' = context
    /\ twin' = IF merges = 0 THEN TwinOf(context) ELSE twin
    /\ merges' = merges + 1
    /\ UNCHANGED <<verifies, returned, pc, project, results, trace>>

Next == MergeDataSettings

Spec == Init /\ [][Next]_vars

(* ---------------- the verify_data call ---------------- *)
(* stores of up to three configurations with a target type each, with or
   without one wildcard record, and any set of requested configurations *)
TargetTypes == {"Application", "StaticLibrary"}

VerifyContext(t, w, req) ==
    NewContext([k \in {c \in {D64, R64, D86} : t[c] # "absent"}
                      \cup (IF w = Absent THEN {} ELSE {w}) |->
                   IF k = w THEN [x \in {"target_type"} |-> "Utility"]
                   ELSE ParsedRecord(t[k], <<"X">>, Absent)],
               SelectSeq(<< <<D64, D64>>, <<R64, R64>>, <<D86, D86>> >>,
                         LAMBDA e : t[e[1]] # "absent"),
               <<>>, req, FALSE)

InitVerify ==
    \E t \in [{D64, R64, D86} -> TargetTypes \cup {"absent"}],
       w \in {Absent, <<None, "x64">>, <<"Debug", None>>},
       req \in SUBSET {D64, R64, D86} :
        Fresh(VerifyContext(t, w, req))

VerifyData ==
    /\ pc = "idle"
    /\ verifies < MaxVerifies
    /\ ~raised
    /\ \E v \in {verify_data(context)} :
           /\ context' = v.ctx
           /\ raised' = v.raised
           /\ returned' = IF v.raised THEN "none" ELSE PyBool(v.result)
    /\ before' = context
    /\ verifies' = verifies + 1
    /\ UNCHANGED <<merges, passes, twin, pc, project, results, trace>>

NextVerify == VerifyData

SpecVerify == InitVerify /\ [][NextVerify]_vars

(* ---------------- run_conversion and convert_project ---------------- *)
(* what the parser may leave in a project's context *)
RunContexts ==
    {NewContext((D64 :> ParsedRecord(t1, d1, Absent))
                @@ (IF t2 = "absent" THEN EmptyFcn
                    ELSE (R64 :> ParsedRecord(t2, <<"Y", "X">>, Absent))),
                << <<D64, D64>> >>
                \o (IF t2 = "absent" THEN <<>> ELSE << <<R64, R64>> >>),
                <<>>, req, FALSE) :
        t1 \in TargetTypes, t2 \in TargetTypes \cup {"absent"},
        d1 \in {<<"X">>, <<"X", "Y">>}, req \in {{D64}, {D64, R64}}}

Info(kind) == Message("", kind, {})

Phase(name) == trace' = [trace EXCEPT ![project] = Append(@, name)]

InitRun ==
    /\ context = NewContext(EmptyFcn, <<>>, <<>>, {}, FALSE)
    /\ raised = FALSE
    /\ merges = 0
    /\ verifies = 0
    /\ passes = <<>>
    /\ before = context
    /\ twin = NoTwin
    /\ returned = "none"
    /\ pc = "loop"
    /\ project = 1
    /\ results = <<>>
    /\ trace = NoTrace

(* run_conversion, lines 291-299: the next project; its context is its own *)
StartProject ==
    /\ pc = "loop"
    /\ project <= NumProjects
    /\ \E dry \in BOOLEAN :
           context' = message(NewContext(EmptyFcn, <<>>, <<>>, {}, dry), Info("Starting"))
    /\ before' = context'
    /\ merges' = 0 /\ verifies' = 0 /\ passes' = <<>> /\ returned' = "none"
    /\ pc' = "init"
    /\ UNCHANGED <<raised, twin, project, results, trace>>

(* convert_project, lines 260-263: context.init succeeds or not *)
ContextInit ==
    /\ pc = "init"
    /\ \E ok \in BOOLEAN :
           IF ok
           THEN /\ context' = message(context, Info("Conversion started"))
                /\ Phase("init")
                /\ pc' = "collect"
           ELSE /\ context' = context
                /\ Phase("init_failed")
                /\ pc' = "exit_false"
    /\ UNCHANGED <<raised, merges, verifies, passes, before, twin, returned,
                   project, results>>

(* collect_data, lines 54-57: the parser fills the context *)
CollectData ==
    /\ pc = "collect"
    /\ \E parsed \in RunContexts :
           context' = [message(context, Info("Collecting data")) EXCEPT
                           !.settings = parsed.settings, !.map = parsed.map,
                           !.files = parsed.files, !.requested = parsed.requested]
    /\ Phase("collect")
    /\ pc' = "verify"
    /\ UNCHANGED <<raised, merges, verifies, passes, before, twin, returned,
                   project, results>>

(* lines 265-266 with the return value of verify_data ignored *)
VerifyStep_ignored ==
    /\ pc = "verify"
    /\ \E v \in {verify_data(context)} :
           /\ context' = v.ctx
           /\ raised' = v.raised
           /\ returned' = IF v.raised THEN "none" ELSE PyBool(v.result)
           /\ IF v.raised
              THEN Phase("verify_raised") /\ pc' = "crashed"
              ELSE IF v.result
              THEN Phase("verify_ok") /\ pc' = "merge"
              ELSE Phase("verify_failed") /\ pc' = "merge"
    /\ before' = context
    /\ verifies' = verifies + 1
    /\ UNCHANGED <<merges, passes, twin, project, results>>

(* convert_project, lines 265-266 *)
VerifyStep ==
    /\ pc = "verify"
    /\ \E v \in {verify_data(context)} :
           /\ context' = v.ctx
           /\ raised' = v.raised
           /\ returned' = IF v.raised THEN "none" ELSE PyBool(v.result)
           /\ IF v.raised
              THEN Phase("verify_raised") /\ pc' = "crashed"
              ELSE IF v.result
              THEN Phase("verify_ok") /\ pc' = "merge"
              ELSE Phase("verify_failed") /\ pc' = "exit_false"
    /\ before' = context
    /\ verifies' = verifies + 1
    /\ UNCHANGED <<merges, passes, twin, project, results>>

(* convert_project, lines 267-269 *)
MergeStep ==
    /\ pc = "merge"
    /\ \E r \in {MergeOf(context)} :
           /\ context' = [context EXCEPT !.settings = r.settings, !.map = r.map,
                                         !.files = r.files]
           /\ raised' = r.raised
           /\ passes' = r.passes
           /\ pc' = IF r.raised THEN "crashed"
                    ELSE IF context.dry THEN "exit_true" ELSE "write"
    /\ Phase("merge")
    /\ before' = context
    /\ merges' = merges + 1
    /\ UNCHANGED <<verifies, twin, returned, project, results>>

(* convert_project, lines 270-286: the emission *)
WriteStep ==
    /\ pc = "write"
    /\ context' = message(message(context, Info("Writing data")), Info("Conversion done"))
    /\ Phase("write")
    /\ pc' = "exit_true"
    /\ UNCHANGED <<raised, merges, verifies, passes, before, twin, returned,
                   project, results>>

(* run_conversion, lines 300-315 *)
ExitProject ==
    /\ pc \in {"exit_true", "exit_false"}
    /\ context' = message(context, Info("Exiting"))
    /\ results' = IF pc = "exit_true" THEN Append(results, project) ELSE results
    /\ project' = project + 1
    /\ pc' = "loop"
    /\ UNCHANGED <<raised, merges, verifies, passes, before, twin, returned, trace>>

(* run_conversion, line 316 *)
ReturnResults ==
    /\ pc = "loop"
    /\ project > NumProjects
    /\ pc' = "done"
    /\ UNCHANGED <<context, raised, merges, verifies, passes, before, twin, returned,
                   project, results, trace>>

NextRun ==
    \/ StartProject
    \/ ContextInit
    \/ CollectData
    \/ VerifyStep
    \/ MergeStep
    \/ WriteStep
    \/ ExitProject
    \/ ReturnResults

SpecRun == InitRun /\ [][NextRun]_vars

(* ======================= properties of the Merger ======================= *)
Completed == merges >= 1 /\ ~raised

MergeableKeys == Range(lists_of_settings_to_merge)

(* the common list stored under the wildcard key of an architecture *)
Stored(arch, key) == context.settings[<<None, arch>>][key]

(* the list the store held for a solution configuration when pass k began *)
OriginalList(k, sln_setting) ==
    passes[k].at_settings[ODGet(passes[k].at_map, sln_setting)][passes[k].key]

FirstIndex(list, v) == CHOOSE i \in DOMAIN list : list[i] = v /\ \A j \in 1..(i - 1) : list[j] # v

Count(list, v) == Cardinality({i \in DOMAIN list : list[i] = v})

(* C1: after merge_data_settings, for every architecture, mergeable key and
   concrete solution configuration that contributed a list for the key, the
   values of the common list under (None, architecture) together with the
   values of the configuration's residual list are exactly the values of the
   configuration's original list. *)
C1_Partition ==
    Completed =>
        \A k \in DOMAIN passes : \A a \in DOMAIN passes[k].lists :
            LET key == passes[k].key
                arch == passes[k].lists[a][1]
                items == passes[k].lists[a][2]
            IN  \A j \in DOMAIN items :
                    items[j][1][1] # None =>
                        /\ items[j][2] = OriginalList(k, items[j][1])
                        /\ Range(Stored(arch, key)) \cup Range(context.settings[items[j][1]][key])
                               = Range(OriginalList(k, items[j][1]))

C1_Witness ==
    /\ merges = 1 /\ ~raised
    /\ \E k \in DOMAIN passes : \E a \in DOMAIN passes[k].lists :
           LET key == passes[k].key
               arch == passes[k].lists[a][1]
               items == passes[k].lists[a][2]
           IN  /\ Len(items) >= 2
               /\ Stored(arch, key) # <<>>
               /\ \E j \in DOMAIN items :
                      /\ context.settings[items[j][1]][key] # <<>>
                      /\ context.settings[items[j][1]][key] # items[j][2]

(* the architectures a pass grouped, with the lists that contributed *)
PassArchs(k) == DOMAIN passes[k].lists

(* the entries of the map, as pass k found it, that resolve for an
   architecture to a concrete configuration *)
ConcreteEntries(k, arch) ==
    {e \in Range(passes[k].at_map) : e[1][2] = arch /\ e[2][1] # None}

(* C2 as stated: every value of the common list under (None, architecture)
   was in the key's list of every concrete configuration the map resolves for
   the architecture, a record without the key counting as holding no values. *)
C2_CommonInEveryConfiguration ==
    (merges = 1 /\ ~raised) =>
        \A k \in DOMAIN passes : \A a \in PassArchs(k) :
            LET key == passes[k].key
                arch == passes[k].lists[a][1]
            IN  \A v \in Range(Stored(arch, key)) : \A e \in ConcreteEntries(k, arch) :
                    /\ key \in DOMAIN passes[k].at_settings[e[2]]
                    /\ v \in Range(passes[k].at_settings[e[2]][key])

(* C2 amended: every value of the common list under (None, architecture) was
   in the key's list of every concrete configuration the map resolves for the
   architecture whose record has an entry for the key; a configuration whose
   record lacks the key is skipped and does not constrain the common list. *)
C2_CommonInEveryContributor ==
    Completed =>
        \A k \in DOMAIN passes : \A a \in PassArchs(k) :
            LET key == passes[k].key
                arch == passes[k].lists[a][1]
            IN  \A v \in Range(Stored(arch, key)) : \A e \in ConcreteEntries(k, arch) :
                    key \in DOMAIN passes[k].at_settings[e[2]] =>
                        v \in Range(passes[k].at_settings[e[2]][key])

C2_Witness ==
    /\ merges = 1 /\ ~raised
    /\ \E k \in DOMAIN passes : \E a \in PassArchs(k) :
           LET key == passes[k].key
               arch == passes[k].lists[a][1]
           IN  /\ Stored(arch, key) # <<>>
               /\ \E e \in ConcreteEntries(k, arch) :
                      key \notin DOMAIN passes[k].at_settings[e[2]]
               /\ \E e1, e2 \in ConcreteEntries(k, arch) :
                      /\ e1 # e2
                      /\ key \in DOMAIN passes[k].at_settings[e1[2]]
                      /\ key \in DOMAIN passes[k].at_settings[e2[2]]
                      /\ passes[k].at_settings[e1[2]][key] # passes[k].at_settings[e2[2]][key]

(* C3: a second merge_data_settings on the store and map a first one produced
   leaves every common list, every residual list and the map unchanged. *)
C3_Idempotent ==
    (merges = 2 /\ ~raised) =>
        /\ context.map = before.map
        /\ DOMAIN context.settings = DOMAIN before.settings
        /\ \A s \in DOMAIN before.settings :
               \A key \in MergeableKeys \cap DOMAIN before.settings[s] :
                   /\ key \in DOMAIN context.settings[s]
                   /\ context.settings[s][key] = before.settings[s][key]

(* C4 as stated: the common lists are the same lists whatever order the
   entries of the map are iterated in. *)
C4_SameListsInAnyOrder ==
    (merges = 1 /\ ~raised) =>
        \A p \in DOMAIN twin :
            /\ ~twin[p].raised
            /\ twin[p].wild = WildcardRecords(context.settings)

(* C4 amended: whatever order the entries of the map are iterated in, the
   common list of every architecture and mergeable key holds the same values,
   each as often; only the order of the values within a common list follows
   the iteration order, so the lists are identical when the order is. *)
C4_SameValuesInAnyOrder ==
    merges = 1 =>
        \A p \in DOMAIN twin :
            /\ twin[p].raised = raised
            /\ ~raised =>
                LET mine == WildcardRecords(context.settings)
                IN  /\ DOMAIN twin[p].wild = DOMAIN mine
                    /\ \A w \in DOMAIN mine :
                           /\ DOMAIN twin[p].wild[w] = DOMAIN mine[w]
                           /\ \A key \in DOMAIN mine[w] :
                                  /\ Len(twin[p].wild[w][key]) = Len(mine[w][key])
                                  /\ \A v \in Range(mine[w][key]) \cup Range(twin[p].wild[w][key]) :
                                         Count(twin[p].wild[w][key], v) = Count(mine[w][key], v)

C4_Witness ==
    /\ merges = 1 /\ ~raised
    /\ \E p \in DOMAIN twin : \E w \in DOMAIN twin[p].wild :
           /\ w \in DOMAIN context.settings
           /\ "defines" \in DOMAIN twin[p].wild[w]
           /\ "defines" \in DOMAIN context.settings[w]
           /\ twin[p].wild[w]["defines"] # context.settings[w]["defines"]
           /\ Len(context.settings[w]["defines"]) >= 2

(* C5 as stated: for any two values a before b in a common list, a precedes b
   in the original list of every configuration that contributed. *)
C5_OrderOfEveryContributor ==
    Completed =>
        \A k \in DOMAIN passes : \A a \in PassArchs(k) :
            LET common == Stored(passes[k].lists[a][1], passes[k].key)
                items == passes[k].lists[a][2]
            IN  \A i, j \in DOMAIN common :
                    i < j => \A n \in DOMAIN items :
                                 FirstIndex(items[n][2], common[i])
                                     < FirstIndex(items[n][2], common[j])

(* C5 amended: for any two values a before b in a common list, a precedes b
   in the original list of at least one configuration that contributed (the
   one the round-robin met a in first); where the contributing lists disagree
   on the order of a and b the common list cannot follow all of them. *)
C5_OrderOfSomeContributor ==
    Completed =>
        \A k \in DOMAIN passes : \A a \in PassArchs(k) :
            LET common == Stored(passes[k].lists[a][1], passes[k].key)
                items == passes[k].lists[a][2]
            IN  \A i, j \in DOMAIN common :
                    i < j => \E n \in DOMAIN items :
                                 FirstIndex(items[n][2], common[i])
                                     < FirstIndex(items[n][2], common[j])

C5_Witness ==
    /\ merges = 1 /\ ~raised
    /\ \E k \in DOMAIN passes : \E a \in PassArchs(k) :
           LET common == Stored(passes[k].lists[a][1], passes[k].key)
               items == passes[k].lists[a][2]
           IN  /\ Len(common) >= 2
               /\ Len(items) >= 2
               /\ \E n \in DOMAIN items :
                      FirstIndex(items[n][2], common[2]) < FirstIndex(items[n][2], common[1])
               /\ FirstIndex(items[1][2], common[2]) < FirstIndex(items[1][2], common[1])

(* ---------------- the reference procedure of C9 ---------------- *)
(* the original lists of the configurations contributing to an architecture,
   in the order the map, as pass k found it, lists them *)
RefContributors(k, arch) ==
    LET key == passes[k].key
        entries == SelectSeq(passes[k].at_map,
                       LAMBDA e : /\ e[1][2] = arch
                                  /\ e[2][1] # None
                                  /\ key \in DOMAIN passes[k].at_settings[e[2]])
    IN  [n \in DOMAIN entries |-> passes[k].at_settings[entries[n][2]][key]]

(* the elements of a set of positions, in increasing order of Less *)
Sorted(P, Less(_, _)) ==
    [r \in 1..Cardinality(P) |->
        CHOOSE q \in P : Cardinality({o \in P : Less(o, q)}) = r - 1]

(* the lists interleaved by index: every element at index 1, then every
   element at index 2, ..., within an index in the order of the lists *)
RefInterleave(ls) ==
    LET longest == IF ls = <<>> THEN 0
                   ELSE CHOOSE m \in {Len(ls[n]) : n \in DOMAIN ls} :
                            \A n \in DOMAIN ls : Len(ls[n]) <= m
        P == {q \in (1..Len(ls)) \X (1..longest) : q[2] <= Len(ls[q[1]])}
        Less(o, q) == o[2] < q[2] \/ (o[2] = q[2] /\ o[1] < q[1])
        order == Sorted(P, Less)
    IN  [r \in DOMAIN order |-> ls[order[r][1]][order[r][2]]]

RefIntersection(ls) ==
    IF ls = <<>> THEN {} ELSE {v \in Range(ls[1]) : \A n \in DOMAIN ls : v \in Range(ls[n])}

(* the first occurrence of each value of S in a sequence *)
RefFirstOccurrences(cand, S) ==
    LET P == {i \in DOMAIN cand : cand[i] \in S /\ \A j \in 1..(i - 1) : cand[j] # cand[i]}
        Less(o, q) == o < q
        order == Sorted(P, Less)
    IN  [r \in DOMAIN order |-> cand[order[r]]]

(* the non-None architectures of the solution configurations of a map *)
ArchsOf(map) == {e[1][2] : e \in Range(map)} \ {None}

(* C9: the common list of every architecture and mergeable key is the
   round-robin interleaving of the contributing configurations' original
   lists, in encounter order, reduced to the first occurrence of each value
   of their intersection; so every value common to all contributing lists is
   in it exactly once, also when a source list repeats it. *)
C9_CommonIsReference ==
    Completed =>
        \A k \in DOMAIN passes : \A arch \in ArchsOf(passes[k].at_map) :
            LET ls == RefContributors(k, arch)
                common == Stored(arch, passes[k].key)
            IN  /\ common = RefFirstOccurrences(RefInterleave(ls), RefIntersection(ls))
                /\ \A v \in RefIntersection(ls) : Count(common, v) = 1

C9_Witness ==
    /\ merges = 1 /\ ~raised
    /\ \E k \in DOMAIN passes : \E arch \in ArchsOf(passes[k].at_map) :
           LET ls == RefContributors(k, arch)
               common == Stored(arch, passes[k].key)
           IN  /\ Len(ls) >= 2
               /\ Len(common) >= 2
               /\ common[1] # ls[1][1]
               /\ \E n \in DOMAIN ls : Count(ls[n], common[1]) >= 2

(* C10: after merge_data_settings, for every non-None architecture of a
   solution configuration of the map the wildcard key (None, architecture)
   has a record holding the common list of each mergeable key and resolves to
   itself; every solution configuration that contributed a list resolves to
   itself and has its own record; every ConfigKey the map resolves to has a
   record. *)
C10_WildcardCommitted ==
    Completed =>
        /\ \A arch \in ArchsOf(before.map) \cup ArchsOf(context.map) :
               /\ <<None, arch>> \in DOMAIN context.settings
               /\ ODHas(context.map, <<None, arch>>)
               /\ ODGet(context.map, <<None, arch>>) = <<None, arch>>
               /\ \A k \in DOMAIN passes :
                      /\ passes[k].key \in DOMAIN context.settings[<<None, arch>>]
                      /\ ODHas(passes[k].common, arch)
                      /\ Stored(arch, passes[k].key) = ODGet(passes[k].common, arch)
        /\ {passes[k].key : k \in DOMAIN passes} = MergeableKeys
        /\ \A k \in DOMAIN passes : \A a \in PassArchs(k) :
               \A n \in DOMAIN passes[k].lists[a][2] :
                   LET sln_setting == passes[k].lists[a][2][n][1]
                   IN  /\ ODGet(context.map, sln_setting) = sln_setting
                       /\ sln_setting \in DOMAIN context.settings
        /\ \A e \in Range(context.map) : e[2] \in DOMAIN context.settings

C10_Witness ==
    /\ merges = 1 /\ ~raised
    /\ Cardinality(ArchsOf(before.map)) >= 2
    /\ \E e \in Range(before.map) :
           /\ e[1] # e[2]
           /\ e[1] \notin DOMAIN before.settings
           /\ e[1] \in DOMAIN context.settings
           /\ ODGet(context.map, e[1]) = e[1]
    /\ \E arch \in ArchsOf(before.map) :
           /\ <<None, arch>> \notin DOMAIN before.settings
           /\ Stored(arch, "defines") # <<>>
           /\ Stored(arch, "include_dirs") # <<>>

(* ---------------- the frame of a pass that finds nothing in common ---------------- *)
(* the store and the map as pass k left them *)
AfterSettings(k) == IF k < Len(passes) THEN passes[k + 1].at_settings ELSE context.settings

AfterMap(k) == IF k < Len(passes) THEN passes[k + 1].at_map ELSE context.map

(* pass k found no value shared by the configurations of its a-th architecture *)
SharesNothing(k, a) ==
    LET arch == passes[k].lists[a][1]
    IN  arch \notin DOMAIN passes[k].sets \/ passes[k].sets[arch] = {}

(* setting is a concrete configuration of the architecture *)
ConcreteOf(arch, setting) == setting[1] # None /\ setting[2] = arch

(* the solution configurations that contributed a list to the a-th architecture
   of pass k *)
ContributorsOf(k, a) == {it[1] : it \in Range(passes[k].lists[a][2])}

(* C11 as stated: when the concrete configurations of an architecture share
   no value for a mergeable key, the pass stores an empty common list, leaves
   every contributing configuration's list as it was, creates no record for a
   concrete configuration of the architecture and re-points no entry of the
   map for a concrete solution configuration of the architecture. *)
C11_NothingElseChanges ==
    Completed =>
        \A k \in DOMAIN passes : \A a \in PassArchs(k) :
            SharesNothing(k, a) =>
                LET key == passes[k].key
                    arch == passes[k].lists[a][1]
                    items == passes[k].lists[a][2]
                IN  /\ AfterSettings(k)[<<None, arch>>][key] = <<>>
                    /\ \A j \in DOMAIN items :
                           AfterSettings(k)[items[j][1]][key] = items[j][2]
                    /\ \A setting \in DOMAIN AfterSettings(k) :
                           ConcreteOf(arch, setting) =>
                               setting \in DOMAIN passes[k].at_settings
                    /\ \A e \in Range(passes[k].at_map) :
                           ConcreteOf(arch, e[1]) => ODGet(AfterMap(k), e[1]) = e[2]

(* C11, amended: when the concrete configurations of an architecture share no
   value for a mergeable key, the pass stores an empty common list; every
   configuration that contributed a list keeps that list, resolves to itself
   afterwards and, if it had no record of its own, gets a copy of the record
   it resolved to; the record of a contributor that had one differs from
   before in this key only; no other record of a concrete configuration of the
   architecture is created or changed and no other entry of the map for one is
   re-pointed. *)
C11_OnlyContributorsMaterialised ==
    Completed =>
        \A k \in DOMAIN passes : \A a \in PassArchs(k) :
            SharesNothing(k, a) =>
                LET key == passes[k].key
                    arch == passes[k].lists[a][1]
                    items == passes[k].lists[a][2]
                    settings0 == passes[k].at_settings
                    map0 == passes[k].at_map
                IN  /\ AfterSettings(k)[<<None, arch>>][key] = <<>>
                    /\ \A j \in DOMAIN items :
                           LET sln_setting == items[j][1]
                               own == IF sln_setting \in DOMAIN settings0
                                      THEN sln_setting
                                      ELSE ODGet(map0, sln_setting)
                           IN  /\ AfterSettings(k)[sln_setting]
                                      = SetItem(settings0[own], key, items[j][2])
                               /\ ODGet(AfterMap(k), sln_setting) = sln_setting
                    /\ \A setting \in DOMAIN AfterSettings(k) :
                           ConcreteOf(arch, setting) /\ setting \notin ContributorsOf(k, a) =>
                               /\ setting \in DOMAIN settings0
                               /\ AfterSettings(k)[setting] = settings0[setting]
                    /\ \A e \in Range(map0) :
                           ConcreteOf(arch, e[1]) /\ e[1] \notin ContributorsOf(k, a) =>
                               ODGet(AfterMap(k), e[1]) = e[2]

(* two configurations with non-empty lists that share nothing, one of them
   resolving to another configuration's record before the call *)
C11_Witness ==
    /\ merges = 1 /\ ~raised
    /\ \E k \in DOMAIN passes : \E a \in PassArchs(k) :
           LET items == passes[k].lists[a][2]
           IN  /\ SharesNothing(k, a)
               /\ Len(items) >= 2
               /\ \A j \in DOMAIN items : items[j][2] # <<>>
               /\ \E j \in DOMAIN items :
                      /\ ODGet(passes[k].at_map, items[j][1]) # items[j][1]
                      /\ ODGet(AfterMap(k), items[j][1]) = items[j][1]

(* ---------------- errors of the Merger ---------------- *)
(* every ConfigKey the map of a context resolves to has a record, in the
   context and in its per-file contexts *)
EveryResolvedKeyHasRecord(ctx) ==
    /\ \A e \in Range(ctx.map) : e[2] \in DOMAIN ctx.settings
    /\ \A f \in Range(ctx.files) :
           \A e \in Range(f[2].map) : e[2] \in DOMAIN f[2].settings

(* the entry of a record for a key, Absent when it has none *)
EntryOf(settings, setting, key) ==
    IF key \in DOMAIN settings[setting] THEN settings[setting][key] ELSE Absent

(* pass k skips the entry e of the map: the record it resolves to lacks the
   key, or the ConfigKey it resolves to is a wildcard (lines 120-122) *)
Skipped(k, e) ==
    \/ passes[k].key \notin DOMAIN passes[k].at_settings[e[2]]
    \/ e[2][1] = None

(* C12: on a store and a map in which every ConfigKey the map resolves to has
   a record, merge_data_settings raises no error, and the record of a
   configuration that a pass skips, because it lacks the key or is a wildcard,
   has after the pass the entry for the key it had before. *)
C12_CompletesWithoutError ==
    (merges >= 1 /\ EveryResolvedKeyHasRecord(before)) =>
        /\ ~raised
        /\ \A k \in DOMAIN passes : \A e \in Range(passes[k].at_map) :
               Skipped(k, e) =>
                   EntryOf(AfterSettings(k), e[2], passes[k].key)
                       = EntryOf(passes[k].at_settings, e[2], passes[k].key)

(* ======================= properties of the Validator ======================= *)
(* the diagnostics the last call wrote *)
NewMessages == SubSeq(context.messages, Len(before.messages) + 1, Len(context.messages))

AbsentBefore == {setting \in before.requested : setting \notin DOMAIN before.settings}

Errors == {i \in DOMAIN NewMessages : NewMessages[i].status = "error"}

Warnings == {i \in DOMAIN NewMessages : NewMessages[i].status = "warn"}

(* C6: verify_data returns failure exactly when a requested configuration has
   no record; afterwards the requested set is the original one restricted to
   the configurations the store has, the absent ones (and only those) are
   named in one error diagnostic, and no record has changed. *)
C6_Completeness ==
    (verifies >= 1 /\ ~raised) =>
        /\ (returned = "False") <=> (AbsentBefore # {})
        /\ returned \in {"True", "False"}
        /\ context.requested = before.requested \cap DOMAIN before.settings
        /\ Cardinality(Errors) = (IF AbsentBefore # {} THEN 1 ELSE 0)
        /\ \A i \in Errors : NewMessages[i].absent = AbsentBefore
        /\ context.settings = before.settings

C6_Witness ==
    /\ verifies = 1
    /\ returned = "False"
    /\ Cardinality(AbsentBefore) = 2
    /\ context.requested # {}
    /\ context.requested # before.requested

(* C8: verify_data writes the multiple-output-type warning exactly when the
   non-wildcard configurations of the store declare more than one target
   type, and the warning changes neither what verify_data returns nor the
   requested set. *)
C8_TargetTypeWarning ==
    (verifies >= 1 /\ ~raised) =>
        LET types == {before.settings[setting]["target_type"] :
                         setting \in {x \in DOMAIN before.settings :
                                         x[1] # None /\ x[2] # None}}
        IN  /\ (Warnings # {}) <=> (Cardinality(types) > 1)
            /\ Cardinality(Warnings) <= 1
            /\ (Warnings # {}) =>
                   /\ returned = PyBool(AbsentBefore = {})
                   /\ context.requested = before.requested \ AbsentBefore

C8_Witness ==
    /\ verifies = 1
    /\ Warnings # {}
    /\ returned = "True"
    /\ context.requested # {}
    /\ \E w \in DOMAIN before.settings : w[1] = None \/ w[2] = None

(* ======================= properties of run_conversion ======================= *)
Has(t, name) == \E i \in DOMAIN t : t[i] = name

Index(t, name) == CHOOSE i \in DOMAIN t : t[i] = name

(* project i went through convert_project and run_conversion moved on *)
Left(i) == project > i \/ pc = "done"

(* C7: a project whose verify_data returns failure is never merged nor
   emitted and is not in the results, and every later project of the run is
   still processed; in a project that passes, validation comes before merging
   and merging before emission. *)
C7_Pipeline ==
    \A i \in 1..NumProjects :
        /\ Has(trace[i], "verify_failed") =>
               /\ ~Has(trace[i], "merge")
               /\ ~Has(trace[i], "write")
               /\ ~Has(results, i)
               /\ pc # "crashed"
               /\ \A j \in (i + 1)..NumProjects : Left(j) => trace[j] # <<>>
               /\ pc = "done" => \A j \in (i + 1)..NumProjects : Left(j)
        /\ Has(trace[i], "merge") =>
               /\ Has(trace[i], "verify_ok")
               /\ Index(trace[i], "verify_ok") < Index(trace[i], "merge")
        /\ Has(trace[i], "write") =>
               /\ Has(trace[i], "merge")
               /\ Index(trace[i], "merge") < Index(trace[i], "write")
        /\ Has(results, i) => Has(trace[i], "merge")
        /\ (Left(i) /\ Has(trace[i], "merge")) => Has(results, i)

C7_Witness ==
    /\ pc = "done"
    /\ Has(trace[1], "verify_failed")
    /\ Has(trace[NumProjects], "write")
    /\ results = [n \in 1..(NumProjects - 1) |-> n + 1]

====
